---- MODULE Spec2Model ----
(***************************************************************************)
(* Model of asher8554/MHAPalletizing:                                      *)
(*   add_colors_to_csv.py        generate_color_for_product,               *)
(*                               add_colors_to_csv, main                   *)
(*   3d_visualization/server.py  MyHttpRequestHandler.do_GET               *)
(*                                                                         *)
(* Identifiers and csv cells are sequences of code points; file names and  *)
(* request paths are sequences of one-character strings.  Python's int is  *)
(* unbounded; it is modelled as a little-endian sequence of limbs in base  *)
(* 2^16 without leading zero limbs, so that values beyond 32 bits are      *)
(* represented.                                                            *)
(***************************************************************************)
EXTENDS Integers, Sequences, FiniteSets, TLC

(* ------------------------------ bounds --------------------------------- *)
MaxLen == 6
MaxRows == 2
BatchRows == 1
MaxFiles == 2

\* code points the identifiers of the engine specification are built from:
\* '1', 'z' and the euro sign
Alphabet == {49, 122, 8364}

VARIABLES
    \* generate_color_for_product, stepped
    str_id, pos, hash_value, hsl, rgb, color, cpc,
    \* the Results folder: whether it exists, and its files by name
    dirExists, disk,
    \* main: position, the filtered listing, index of the file in hand,
    \* exit status of the process
    pc, files, fi, exitStatus,
    \* add_colors_to_csv: its locals
    rows, fieldnames, product_colors, ri,
    \* observation: the folder when the process started, what it printed or
    \* raised, the engine invocations of the call in hand, the files opened
    \* for writing by this process, and the files some process has augmented
    orig, log, calls, writes, augmented,
    \* server.py: whether ../Results is a folder, its entries, the request
    \* path in hand, the response sent, and the position of the server
    srvDirExists, results, path, response, spc

cvars == <<str_id, pos, hash_value, hsl, rgb, color, cpc>>
pvars == <<dirExists, disk, pc, files, fi, exitStatus, rows, fieldnames,
           product_colors, ri, orig, log, calls, writes, augmented>>
svars == <<srvDirExists, results, path, response, spc>>
vars == <<cvars, pvars, svars>>

(* ----------------------- Python int arithmetic ------------------------- *)
LimbBase == 2^16

RECURSIVE Normalize(_)
Normalize(x) ==
    IF x = <<>> THEN <<>>
    ELSE IF x[Len(x)] = 0 THEN Normalize(SubSeq(x, 1, Len(x) - 1))
    ELSE x

RECURSIVE FromInt(_)
FromInt(n) ==
    IF n = 0 THEN <<>> ELSE <<n % LimbBase>> \o FromInt(n \div LimbBase)

RECURSIVE MulSmall(_, _, _)
MulSmall(x, k, carry) ==
    IF x = <<>> THEN FromInt(carry)
    ELSE LET t == Head(x) * k + carry
         IN  <<t % LimbBase>> \o MulSmall(Tail(x), k, t \div LimbBase)

\* x << n for a non-negative x
Shl(x, n) == MulSmall(x, 2^n, 0)

RECURSIVE AddCarry(_, _, _)
AddCarry(x, y, carry) ==
    IF x = <<>> /\ y = <<>> THEN FromInt(carry)
    ELSE LET a == IF x = <<>> THEN 0 ELSE Head(x)
             b == IF y = <<>> THEN 0 ELSE Head(y)
             t == a + b + carry
         IN  <<t % LimbBase>>
               \o AddCarry(IF x = <<>> THEN <<>> ELSE Tail(x),
                           IF y = <<>> THEN <<>> ELSE Tail(y),
                           t \div LimbBase)

Add(x, y) == AddCarry(x, y, 0)

\* x - y for x >= y >= 0
RECURSIVE SubBorrow(_, _, _)
SubBorrow(x, y, borrow) ==
    IF x = <<>> THEN <<>>
    ELSE LET b == IF y = <<>> THEN 0 ELSE Head(y)
             t == Head(x) - b - borrow
         IN  <<t % LimbBase>>
               \o SubBorrow(Tail(x), IF y = <<>> THEN <<>> ELSE Tail(y),
                            IF t < 0 THEN 1 ELSE 0)

Sub(x, y) == Normalize(SubBorrow(x, y, 0))

\* x % m for a small positive m (Python: the result has the sign of m)
RECURSIVE Mod(_, _)
Mod(x, m) ==
    IF x = <<>> THEN 0 ELSE (Mod(Tail(x), m) * LimbBase + Head(x)) % m

\* x >> n for a non-negative x
RECURSIVE Shr(_, _)
Shr(x, n) ==
    IF x = <<>> THEN <<>>
    ELSE IF n >= 16 THEN Shr(Tail(x), n - 16)
    ELSE Normalize([i \in 1..Len(x) |->
            (x[i] \div 2^n)
            + (IF i < Len(x) THEN (x[i + 1] % 2^n) * 2^(16 - n) ELSE 0)])

\* abs(x): hash_value is a sum of non-negative terms, so it is never negative
AbsBig(x) == x

Abs(n) == IF n < 0 THEN -n ELSE n

\* the value fits a 32-bit signed integer
InInt32(x) == Len(x) <= 1 \/ (Len(x) = 2 /\ x[2] < 2^15)

(* -------------------- generate_color_for_product ----------------------- *)
\* str(None)
NoneText == <<78, 111, 110, 101>>
\* Python's None as a cell value (no string contains a negative code point)
None == <<-1>>

str(product_id) == IF product_id = None THEN NoneText ELSE product_id

\* hash_value = ord(char) + ((hash_value << 5) - hash_value)
HashUpdate(h, ch) == Add(FromInt(ch), Sub(Shl(h, 5), h))

RECURSIVE HashOf(_)
HashOf(s) ==
    IF s = <<>> THEN <<>>
    ELSE HashUpdate(HashOf(SubSeq(s, 1, Len(s) - 1)), s[Len(s)])

Hue(hv) == Abs(Mod(hv, 360))
\* mutant: the saturation offset taken modulo 21
SaturationWide(hv) == 65 + (Mod(AbsBig(Shr(hv, 8)), 21))
Saturation(hv) == 65 + (Mod(AbsBig(Shr(hv, 8)), 20))
Lightness(hv) == 55 + (Mod(AbsBig(Shr(hv, 16)), 15))

HSLOf(hv) == <<Hue(hv), Saturation(hv), Lightness(hv)>>

(* HSL -> RGB.  The source computes in IEEE-754 doubles; the model computes  *)
(* the same quantities as exact fractions over the denominator 600000:       *)
(*   c = (1 - |2l/100 - 1|) * s/100          = CNum / 10000                  *)
(*   x = c * (1 - |(h/60) % 2 - 1|)          = CNum * XFac / 600000          *)
(*   m = l/100 - c/2                         = (200 l - CNum) / 20000        *)
CNum(S, L) == (100 - Abs(2 * L - 100)) * S
XFac(H) == 60 - Abs((H % 120) - 60)
\* numerators over 600000 of (r', g', b') by sextant
Sextant(H, S, L) ==
    LET c == CNum(S, L) * 60
        x == CNum(S, L) * XFac(H)
    IN  IF H < 60 THEN <<c, x, 0>>
        ELSE IF H < 120 THEN <<x, c, 0>>
        ELSE IF H < 180 THEN <<0, c, x>>
        ELSE IF H < 240 THEN <<0, x, c>>
        ELSE IF H < 300 THEN <<x, 0, c>>
        ELSE <<c, 0, x>>
MNum(S, L) == (200 * L - CNum(S, L)) * 30

(* (v + m) * 255 = (v + m) * 17 * 15 is n / 40000 exactly.  Every value that *)
(* is not an integer is at least 1/40000 from one, far beyond the rounding  *)
(* error of a double, so int() of the double is the floor of the fraction.  *)
(* Where the fraction is an integer the double may land just below it;      *)
(* FloatUnder lists the <<h, s, l, channel>> for which the IEEE-754         *)
(* evaluation of lines 25-27 and 42-44 does.                                *)
FloatUnder ==
    { <<10, 75, 60, 2>>, <<70, 75, 60, 1>>, <<115, 80, 60, 1>>,
      <<115, 80, 64, 1>>, <<130, 75, 60, 3>>, <<175, 70, 68, 3>>,
      <<175, 80, 60, 3>>, <<185, 70, 68, 2>>, <<185, 80, 60, 2>>,
      <<230, 75, 60, 2>>, <<245, 80, 56, 1>>, <<245, 80, 60, 1>>,
      <<245, 80, 64, 1>>, <<245, 80, 68, 1>>, <<260, 75, 68, 1>>,
      <<290, 75, 60, 1>>, <<310, 75, 60, 3>>, <<340, 75, 68, 3>>,
      <<355, 80, 56, 3>>, <<355, 80, 60, 3>>, <<355, 80, 64, 3>>,
      <<355, 80, 68, 3>> }

\* int((v + m) * 255) for channel k
Channel(H, S, L, k) ==
    LET n == (Sextant(H, S, L)[k] + MNum(S, L)) * 17
        q == n \div 40000
    IN  IF n % 40000 = 0 /\ <<H, S, L, k>> \in FloatUnder THEN q - 1 ELSE q

RGBOf(t) == [k \in 1..3 |-> Channel(t[1], t[2], t[3], k)]

\* uppercase hexadecimal digits of n, at least w of them ("{n:02X}")
HexDigit(d) == IF d < 10 THEN 48 + d ELSE 55 + d
RECURSIVE HexText(_, _)
HexText(n, w) ==
    IF n < 16 /\ w <= 1 THEN <<HexDigit(n)>>
    ELSE HexText(n \div 16, w - 1) \o <<HexDigit(n % 16)>>

\* f"#{r:02X}{g:02X}{b:02X}"
Encode(c) == <<35>> \o HexText(c[1], 2) \o HexText(c[2], 2) \o HexText(c[3], 2)

generate_color_for_product(product_id) ==
    Encode(RGBOf(HSLOf(HashOf(str(product_id)))))

(* ----------------------------- idle parts ------------------------------ *)
ColorIdle ==
    /\ str_id = <<>> /\ pos = 0 /\ hash_value = <<>> /\ hsl = <<>>
    /\ rgb = <<>> /\ color = <<>> /\ cpc = "idle"

PipelineIdle ==
    /\ dirExists = FALSE /\ disk = <<>> /\ pc = "idle" /\ files = <<>>
    /\ fi = 0 /\ exitStatus = -1 /\ rows = <<>> /\ fieldnames = <<>>
    /\ product_colors = <<>> /\ ri = 0 /\ orig = <<>> /\ log = <<>>
    /\ calls = <<>> /\ writes = {} /\ augmented = {}

\* an HTTP response: status, Content-type, body
Response(s, t, b) == [status |-> s, ctype |-> t, body |-> b]

ServerIdle ==
    /\ srvDirExists = FALSE /\ results = <<>> /\ path = <<>>
    /\ response = Response(0, "", <<>>) /\ spc = "idle"

(* ------------- specification of the engine, character by character ----- *)
RECURSIVE StringsUpTo(_)
StringsUpTo(n) ==
    IF n = 0 THEN {<<>>}
    ELSE LET S == StringsUpTo(n - 1)
         IN  S \cup {Append(s, a) : s \in {t \in S : Len(t) = n - 1}, a \in Alphabet}

Identifiers == StringsUpTo(MaxLen) \cup {None}

InitColor ==
    /\ \E p \in Identifiers : str_id = str(p)
    /\ pos = 0
    /\ hash_value = <<>>
    /\ hsl = <<>>
    /\ rgb = <<>>
    /\ color = <<>>
    /\ cpc = "hash"
    /\ PipelineIdle /\ ServerIdle

\* one iteration of "for char in str_id"
HashStep ==
    /\ cpc = "hash"
    /\ pos < Len(str_id)
    /\ pos' = pos + 1
    /\ hash_value' = HashUpdate(hash_value, str_id[pos + 1])
    /\ UNCHANGED <<str_id, hsl, rgb, color, cpc, pvars, svars>>

\* lines 19-46: HSL, RGB and the formatted result
Convert ==
    /\ cpc = "hash"
    /\ pos = Len(str_id)
    /\ hsl' = HSLOf(hash_value)
    /\ rgb' = RGBOf(hsl')
    /\ color' = Encode(rgb')
    /\ cpc' = "done"
    /\ UNCHANGED <<str_id, pos, hash_value, pvars, svars>>

NextColor == HashStep \/ Convert

SpecColor == InitColor /\ [][NextColor]_vars

(* =============================== pipeline =============================== *)
(* File names are sequences of one-character strings.  A stored table is   *)
(* the sequence of csv records of the file: hdr is the first record (<<>>  *)
(* for a file without records), rows the others; blank lines are not       *)
(* represented.  Cells are strings (sequences of code points).             *)

Range(s) == {s[i] : i \in 1..Len(s)}

Prefix == <<"i","t","e","m","_","p","l","a","c","e","m","e","n","t","s","_">>
Suffix == <<".","c","s","v">>
Digits == <<"1","2","3","4","5","6","7","8","9">>

startswith(s, p) == Len(s) >= Len(p) /\ SubSeq(s, 1, Len(p)) = p
endswith(s, p) == Len(s) >= Len(p) /\ SubSeq(s, Len(s) - Len(p) + 1, Len(s)) = p

\* f.startswith('item_placements_') and f.endswith('.csv')
IsPlacementFile(f) == startswith(f, Prefix) /\ endswith(f, Suffix)

\* the list comprehension of main over one listing
RECURSIVE FilterListing(_)
FilterListing(l) ==
    IF l = <<>> THEN <<>>
    ELSE (IF IsPlacementFile(Head(l)) THEN <<Head(l)>> ELSE <<>>)
           \o FilterListing(Tail(l))

\* os.listdir returns the entries in arbitrary order
RECURSIVE Orderings(_)
Orderings(S) ==
    IF S = {} THEN {<<>>}
    ELSE UNION {{<<x>> \o r : r \in Orderings(S \ {x})} : x \in S}

(* ------------------------------ csv module ------------------------------ *)
\* reader.fieldnames of a file without records is None
NoFieldnames == <<"<None>">>
Fieldnames(t) == IF t.hdr = <<>> THEN NoFieldnames ELSE t.hdr

Max(S) == CHOOSE m \in S : \A n \in S : n <= m

(* csv.DictReader.__next__: d = dict(zip(fieldnames, row)); extra cells go  *)
(* under the key None (rest), missing fields get the value None.  With a    *)
(* repeated field name the last occurrence decides.                         *)
DictRow(fn, row) ==
    [d |-> [k \in Range(fn) |->
               LET m == Max({i \in 1..Len(fn) : fn[i] = k})
               IN  IF m <= Len(row) THEN row[m] ELSE None],
     rest |-> IF Len(row) > Len(fn)
              THEN SubSeq(row, Len(fn) + 1, Len(row)) ELSE <<>>]

\* rows = list(reader)
DictReader(t) == [i \in 1..Len(t.rows) |-> DictRow(t.hdr, t.rows[i])]

\* the csv writer writes None as the empty string
CellText(v) == IF v = None THEN <<>> ELSE v

\* DictWriter._dict_to_list: rowdict.get(key, restval) for key in fieldnames
DictToList(fn, r) ==
    [i \in 1..Len(fn) |->
        CellText(IF fn[i] \in DOMAIN r.d THEN r.d[fn[i]] ELSE <<>>)]

\* DictWriter, extrasaction='raise': a key of the row that is no field name
WrongFields(fn, r) ==
    r.rest # <<>> \/ \E k \in DOMAIN r.d : k \notin Range(fn)

FirstBad(fn, rs) ==
    IF \E i \in 1..Len(rs) : WrongFields(fn, rs[i])
    THEN CHOOSE i \in 1..Len(rs) :
            /\ WrongFields(fn, rs[i])
            /\ \A j \in 1..(i - 1) : ~WrongFields(fn, rs[j])
    ELSE Len(rs) + 1

\* open(output_file, 'w'), writeheader(), writerows(rows): the file holds the
\* header and the rows before the first one that raises
WrittenTable(fn, rs) ==
    [hdr |-> fn,
     rows |-> [i \in 1..(FirstBad(fn, rs) - 1) |-> DictToList(fn, rs[i])]]

(* --------------------------- add_colors_to_csv -------------------------- *)
\* mutant: only the last field name is looked at
HasColorLast(fn) == fn[Len(fn)] = "Color"

\* 'Color' in fieldnames
HasColor(fn) == "Color" \in Range(fn)

\* mutant: Color is put in front
NewFieldnamesFront(fn) == <<"Color">> \o fn

\* list(fieldnames) + ['Color']
NewFieldnames(fn) == Append(fn, "Color")

\* mutant: the engine is invoked for every row
NeedsColorAlways(product_id, colors) == TRUE

\* product_id not in product_colors
NeedsColor(product_id, colors) == product_id \notin DOMAIN colors

\* row['Color'] = c
SetColor(r, c) ==
    [r EXCEPT !.d = [k \in DOMAIN r.d \cup {"Color"} |->
                        IF k = "Color" THEN c ELSE r.d[k]]]

\* sorted(product_colors.items()) compares the keys: None against a str raises
SortRaises(colors) == None \in DOMAIN colors /\ Cardinality(DOMAIN colors) > 1

Event(f, e, n, u) == [file |-> f, ev |-> e, items |-> n, unique |-> u]

input_file == files[fi]

\* an exception leaves add_colors_to_csv and main: traceback, exit status 1
Raise(e) ==
    /\ pc' = "raised"
    /\ exitStatus' = 1
    /\ log' = Append(log, Event(input_file, e, 0, 0))
    /\ rows' = <<>> /\ fieldnames' = <<>> /\ product_colors' = <<>> /\ ri' = 0

Return ==
    /\ pc' = "loop"
    /\ rows' = <<>> /\ fieldnames' = <<>> /\ product_colors' = <<>> /\ ri' = 0

\* lines 54-57
ReadCsv ==
    /\ pc = "call"
    /\ rows' = DictReader(disk[input_file])
    /\ fieldnames' = Fieldnames(disk[input_file])
    /\ pc' = "check"
    /\ calls' = <<>>
    /\ UNCHANGED <<dirExists, disk, files, fi, exitStatus, product_colors, ri,
                   orig, log, writes, augmented, cvars, svars>>

\* line 60 with fieldnames None: TypeError
FieldnamesTypeError ==
    /\ pc = "check"
    /\ fieldnames = NoFieldnames
    /\ Raise("TypeError")
    /\ UNCHANGED <<dirExists, disk, files, fi, orig, calls, writes, augmented, cvars, svars>>

\* lines 60-62
ColorExists ==
    /\ pc = "check"
    /\ fieldnames # NoFieldnames
    /\ HasColor(fieldnames)
    /\ log' = Append(log, Event(input_file, "exists", 0, 0))
    /\ Return
    /\ UNCHANGED <<dirExists, disk, files, fi, exitStatus, orig, calls, writes,
                   augmented, cvars, svars>>

\* lines 65-68
AddField ==
    /\ pc = "check"
    /\ fieldnames # NoFieldnames
    /\ ~HasColor(fieldnames)
    /\ fieldnames' = NewFieldnames(fieldnames)
    /\ product_colors' = <<>>
    /\ ri' = 0
    /\ pc' = "rows"
    /\ UNCHANGED <<dirExists, disk, files, fi, exitStatus, rows, orig, log,
                   calls, writes, augmented, cvars, svars>>

\* lines 69-73, one row
RowStep ==
    /\ pc = "rows"
    /\ ri < Len(rows)
    /\ "ProductId" \in DOMAIN rows[ri + 1].d
    /\ LET product_id == rows[ri + 1].d["ProductId"]
           fresh == NeedsColor(product_id, product_colors)
           colors == IF fresh
                     THEN [k \in DOMAIN product_colors \cup {product_id} |->
                             IF k = product_id
                             THEN generate_color_for_product(product_id)
                             ELSE product_colors[k]]
                     ELSE product_colors
       IN  /\ product_colors' = colors
           /\ calls' = IF fresh THEN Append(calls, product_id) ELSE calls
           /\ rows' = [rows EXCEPT ![ri + 1] = SetColor(@, colors[product_id])]
    /\ ri' = ri + 1
    /\ UNCHANGED <<dirExists, disk, pc, files, fi, exitStatus, fieldnames, orig,
                   log, writes, augmented, cvars, svars>>

\* line 70 on a row without the key: KeyError
RowKeyError ==
    /\ pc = "rows"
    /\ ri < Len(rows)
    /\ "ProductId" \notin DOMAIN rows[ri + 1].d
    /\ Raise("KeyError")
    /\ UNCHANGED <<dirExists, disk, files, fi, orig, calls, writes, augmented, cvars, svars>>

\* lines 76-79, every row accepted by the writer
WriteCsv ==
    /\ pc = "rows"
    /\ ri = Len(rows)
    /\ FirstBad(fieldnames, rows) > Len(rows)
    /\ disk' = [disk EXCEPT ![input_file] = WrittenTable(fieldnames, rows)]
    /\ writes' = writes \cup {input_file}
    /\ augmented' = augmented \cup {input_file}
    /\ pc' = "report"
    /\ UNCHANGED <<dirExists, files, fi, exitStatus, rows, fieldnames,
                   product_colors, ri, orig, log, calls, cvars, svars>>

\* lines 76-79, a row with cells beyond the header: ValueError in writerows,
\* after the file was truncated and the rows before it were written
WriteValueError ==
    /\ pc = "rows"
    /\ ri = Len(rows)
    /\ FirstBad(fieldnames, rows) <= Len(rows)
    /\ disk' = [disk EXCEPT ![input_file] = WrittenTable(fieldnames, rows)]
    /\ writes' = writes \cup {input_file}
    /\ Raise("ValueError")
    /\ UNCHANGED <<dirExists, files, fi, orig, calls, augmented, cvars, svars>>

\* lines 81-85
Report ==
    /\ pc = "report"
    /\ ~SortRaises(product_colors)
    /\ log' = Append(log, Event(input_file, "ok", Len(rows),
                                Cardinality(DOMAIN product_colors)))
    /\ Return
    /\ UNCHANGED <<dirExists, disk, files, fi, exitStatus, orig, calls, writes,
                   augmented, cvars, svars>>

\* lines 81-84: the counts are printed, then sorted() raises TypeError
ReportTypeError ==
    /\ pc = "report"
    /\ SortRaises(product_colors)
    /\ pc' = "raised"
    /\ exitStatus' = 1
    /\ log' = log \o <<Event(input_file, "ok", Len(rows),
                             Cardinality(DOMAIN product_colors)),
                       Event(input_file, "TypeError", 0, 0)>>
    /\ rows' = <<>> /\ fieldnames' = <<>> /\ product_colors' = <<>> /\ ri' = 0
    /\ UNCHANGED <<dirExists, disk, files, fi, orig, calls, writes, augmented, cvars, svars>>

(* --------------------------------- main --------------------------------- *)
\* lines 91-93
DirMissing ==
    /\ pc = "start"
    /\ ~dirExists
    /\ pc' = "exit1"
    /\ exitStatus' = 1
    /\ UNCHANGED <<dirExists, disk, files, fi, rows, fieldnames, product_colors,
                   ri, orig, log, calls, writes, augmented, cvars, svars>>

\* lines 95-96
ListDir ==
    /\ pc = "start"
    /\ dirExists
    /\ \E listing \in Orderings(DOMAIN disk) : files' = FilterListing(listing)
    /\ pc' = "listed"
    /\ UNCHANGED <<dirExists, disk, fi, exitStatus, rows, fieldnames,
                   product_colors, ri, orig, log, calls, writes, augmented, cvars, svars>>

\* lines 98-100
NoFiles ==
    /\ pc = "listed"
    /\ files = <<>>
    /\ pc' = "exit1"
    /\ exitStatus' = 1
    /\ UNCHANGED <<dirExists, disk, files, fi, rows, fieldnames, product_colors,
                   ri, orig, log, calls, writes, augmented, cvars, svars>>

\* line 102
FoundFiles ==
    /\ pc = "listed"
    /\ files # <<>>
    /\ pc' = "loop"
    /\ UNCHANGED <<dirExists, disk, files, fi, exitStatus, rows, fieldnames,
                   product_colors, ri, orig, log, calls, writes, augmented, cvars, svars>>

\* lines 104-107: the next file is handed to add_colors_to_csv
NextFile ==
    /\ pc = "loop"
    /\ fi < Len(files)
    /\ fi' = fi + 1
    /\ pc' = "call"
    /\ UNCHANGED <<dirExists, disk, files, exitStatus, rows, fieldnames,
                   product_colors, ri, orig, log, calls, writes, augmented, cvars, svars>>

\* the loop is exhausted: main returns, exit status 0
Finish ==
    /\ pc = "loop"
    /\ fi = Len(files)
    /\ pc' = "done"
    /\ exitStatus' = 0
    /\ UNCHANGED <<dirExists, disk, files, fi, rows, fieldnames, product_colors,
                   ri, orig, log, calls, writes, augmented, cvars, svars>>

Terminated == pc \in {"done", "exit1", "raised"}

\* the script is started again on the folder as the last process left it
Rerun ==
    /\ Terminated
    /\ pc' = "start"
    /\ files' = <<>> /\ fi' = 0 /\ exitStatus' = -1
    /\ rows' = <<>> /\ fieldnames' = <<>> /\ product_colors' = <<>> /\ ri' = 0
    /\ orig' = disk /\ log' = <<>> /\ calls' = <<>> /\ writes' = {}
    /\ UNCHANGED <<dirExists, disk, augmented, cvars, svars>>

(* ------------------------------- inputs --------------------------------- *)
FieldNames == {"ProductId", "Qty", "Color"}

\* headers of the single-table runs
Headers ==
    { <<"ProductId">>, <<"Qty">>, <<"ProductId", "Qty">>, <<"Qty", "ProductId">>,
      <<"Qty", "Qty">>, <<"ProductId", "Color">>, <<"Color", "ProductId">> }

\* cell values: the empty string and "1"
Vals == {<<>>, <<49>>}

SeqsUpTo(S, n) == UNION {[1..k -> S] : k \in 0..n}

\* records of 1 .. Len(h) + 1 cells: short, full and long rows
RaggedRows(h) == UNION {[1..k -> Vals] : k \in 1..(Len(h) + 1)}
FullRows(h) == [1..Len(h) -> {<<49>>}]

EmptyFile == [hdr |-> <<>>, rows |-> <<>>]

Tables ==
    {EmptyFile} \cup
    UNION {{[hdr |-> h, rows |-> r] : r \in SeqsUpTo(RaggedRows(h), MaxRows)}
             : h \in Headers}

\* tables of the runs over several files
BatchHeaders == { <<"ProductId">>, <<"Qty">>, <<"ProductId", "Color">> }
BatchTables ==
    {EmptyFile} \cup
    UNION {{[hdr |-> h, rows |-> r] : r \in SeqsUpTo(FullRows(h), BatchRows)}
             : h \in BatchHeaders}

PlacementName(k) == Prefix \o <<Digits[k]>> \o Suffix
PlacementNames == {PlacementName(k) : k \in 1..MaxFiles}
\* entries of the folder the filter must leave alone
OtherNames == { <<"s","u","m","m","a","r","y",".","c","s","v">>,
                Prefix \o <<"1",".","t","x","t">> }
OtherTable == [hdr |-> <<"ProductId">>, rows |-> << <<(<<49>>)>> >>]

Folders ==
    UNION {{d \in [D -> BatchTables \cup {OtherTable}] :
               \A n \in D : n \in OtherNames => d[n] = OtherTable}
             : D \in SUBSET (PlacementNames \cup OtherNames)}

InitPipeline ==
    /\ \/ dirExists = FALSE /\ disk = <<>>
       \/ dirExists = TRUE /\ disk \in Folders
       \/ dirExists = TRUE /\ \E t \in Tables : disk = (PlacementName(1) :> t)
    /\ pc = "start"
    /\ files = <<>> /\ fi = 0 /\ exitStatus = -1
    /\ rows = <<>> /\ fieldnames = <<>> /\ product_colors = <<>> /\ ri = 0
    /\ orig = disk /\ log = <<>> /\ calls = <<>> /\ writes = {} /\ augmented = {}

Init == InitPipeline /\ ColorIdle /\ ServerIdle

Next ==
    \/ DirMissing \/ ListDir \/ NoFiles \/ FoundFiles \/ NextFile \/ Finish
    \/ ReadCsv \/ FieldnamesTypeError \/ ColorExists \/ AddField
    \/ RowStep \/ RowKeyError \/ WriteCsv \/ WriteValueError
    \/ Report \/ ReportTypeError \/ Rerun

Spec == Init /\ [][Next]_vars

(* ================================ server ================================ *)
(* MyHttpRequestHandler.do_GET over the Results folder next to the script.  *)
(* Paths are sequences of one-character strings; path names are resolved as *)
(* on a POSIX file system.                                                  *)

\* s.split(sep): the segments between the separators
RECURSIVE Split(_, _)
Split(s, sep) ==
    IF \A i \in 1..Len(s) : s[i] # sep THEN <<s>>
    ELSE LET i == CHOOSE j \in 1..Len(s) :
                     s[j] = sep /\ \A k \in 1..(j - 1) : s[k] # sep
         IN  <<SubSeq(s, 1, i - 1)>> \o Split(SubSeq(s, i + 1, Len(s)), sep)

Last(s) == s[Len(s)]

ListCsvPath == <<"/","l","i","s","t","_","c","s","v">>
PackingDataPrefix == <<"/","p","a","c","k","i","n","g","_","d","a","t","a","/">>

\* os.path.join(script_dir, PACKING_RESULTS_DIR, filename), looked up:
\* "file", "dir" or "absent"
KindOf(filename) ==
    IF ~srvDirExists THEN "absent"
    ELSE IF filename \in {<<>>, <<".">>, <<".",".">>} THEN "dir"
    ELSE IF filename \in DOMAIN results THEN results[filename].kind
    ELSE "absent"

\* os.path.exists(file_path) and os.path.isfile(file_path)
Servable(filename) == KindOf(filename) = "file"

Text(name) == PackingDataPrefix \o name

SummaryCsv == <<"s","u","m","m","a","r","y",".","c","s","v">>
ServerPy == <<"s","e","r","v","e","r",".","p","y">>
Archive == <<"a","r","c","h","i","v","e">>

\* entries the Results folder of the server may hold
ServerNames == {PlacementName(1), SummaryCsv, ServerPy, Archive}
Entries ==
    {[kind |-> "dir", bytes |-> <<>>]}
    \cup {[kind |-> "file", bytes |-> b] : b \in {<<"x">>, <<"y">>}}

RequestPaths ==
    { ListCsvPath,
      Text(PlacementName(1)), Text(PlacementName(2)), Text(SummaryCsv),
      Text(Archive), Text(<<>>), Text(<<".",".">>),
      Text(<<".",".","/">> \o ServerPy),
      Text(Archive \o <<"/">> \o PlacementName(1)),
      <<"/","i","n","d","e","x",".","h","t","m","l">>,
      <<"/","p","a","c","k","i","n","g","_","d","a","t","a">> }

\* the server waits for a request (serve_forever) and one arrives
Request ==
    /\ spc \in {"wait", "responded"}
    /\ \E p \in RequestPaths : path' = p
    /\ spc' = "request"
    /\ response' = Response(0, "", <<>>)
    /\ UNCHANGED <<srvDirExists, results, cvars, pvars>>

\* lines 16-32
GetListCsv ==
    /\ spc = "request"
    /\ path = ListCsvPath
    /\ \E listing \in Orderings(IF srvDirExists THEN DOMAIN results ELSE {}) :
          response' = Response(200, "application/json", FilterListing(listing))
    /\ spc' = "responded"
    /\ UNCHANGED <<srvDirExists, results, path, cvars, pvars>>

\* lines 33-45
GetPackingData ==
    /\ spc = "request"
    /\ path # ListCsvPath
    /\ startswith(path, PackingDataPrefix)
    /\ LET filename == Last(Split(path, "/"))
       IN  response' = IF Servable(filename)
                       THEN Response(200, "text/csv", results[filename].bytes)
                       ELSE Response(404, "text/html", <<>>)
    /\ spc' = "responded"
    /\ UNCHANGED <<srvDirExists, results, path, cvars, pvars>>

\* lines 46-47: any other path is left to SimpleHTTPRequestHandler.do_GET,
\* which serves the document root; its response is not modelled further
GetStatic ==
    /\ spc = "request"
    /\ path # ListCsvPath
    /\ ~startswith(path, PackingDataPrefix)
    /\ response' = Response(-1, "static", <<>>)
    /\ spc' = "responded"
    /\ UNCHANGED <<srvDirExists, results, path, cvars, pvars>>

InitServer ==
    /\ \/ srvDirExists = FALSE /\ results = <<>>
       \/ srvDirExists = TRUE
          /\ results \in UNION {[D -> Entries] : D \in SUBSET ServerNames}
    /\ path = <<>>
    /\ response = Response(0, "", <<>>)
    /\ spc = "wait"
    /\ ColorIdle /\ PipelineIdle

NextServer == Request \/ GetListCsv \/ GetPackingData \/ GetStatic

SpecServer == InitServer /\ [][NextServer]_vars

(* ================================ claims ================================ *)

(* C1: in generate_color_for_product the running hash, after every          *)
(* character, is a 32-bit signed value (it lies in [-2^31, 2^31 - 1]).      *)
C1_HashIsInt32 == InInt32(hash_value)

HexCodes == (48..57) \cup (65..70)

(* C2: for every identifier, the empty one included, the hue is in          *)
(* [0, 359], the saturation in [65, 84], the lightness in [55, 69], every   *)
(* channel in [0, 255], and the result is '#' and six hexadecimal digits.   *)
C2_Ranges ==
    cpc = "done" =>
        /\ hsl[1] \in 0..359
        /\ hsl[2] \in 65..84
        /\ hsl[3] \in 55..69
        /\ \A k \in 1..3 : rgb[k] \in 0..255
        /\ Len(color) = 7
        /\ color[1] = 35
        /\ \A i \in 2..7 : color[i] \in HexCodes

\* the empty identifier has been converted: h = 0 and the color is #D64141
C2_Witness ==
    /\ cpc = "done"
    /\ str_id = <<>>
    /\ hash_value = <<>>
    /\ color = <<35, 68, 54, 52, 49, 52, 49>>

\* the file in hand has finished its call (or the call raised)
Processed(i) == i < fi \/ (i = fi /\ pc \in {"loop", "done", "raised"})

Logged(f, e) == \E j \in 1..Len(log) : log[j].file = f /\ log[j].ev = e

\* the schema of the stored table holds a field named Color
ColorInSchema(t) == \E j \in 1..Len(t.hdr) : t.hdr[j] = "Color"

(* C3: a table whose schema holds a Color field is reported as already      *)
(* augmented, is not written, keeps every field name and row value, and the *)
(* batch goes on to the next table.                                         *)
C3_Idempotent ==
    \A i \in 1..fi :
        LET f == files[i]
        IN  ColorInSchema(orig[f]) =>
              /\ disk[f] = orig[f]
              /\ f \notin writes
              /\ (i = fi => pc \in {"call", "check", "loop", "done"})
              /\ (Processed(i) => Logged(f, "exists"))

\* a table written by an earlier run has been handed in again and skipped
C3_Witness ==
    /\ pc = "loop"
    /\ fi >= 1
    /\ files[fi] \in augmented
    /\ log # <<>>
    /\ log[Len(log)] = Event(files[fi], "exists", 0, 0)
    /\ Len(disk[files[fi]].rows) >= 1

\* the write of this process to f went through
Succeeded(f) == f \in writes /\ ~Logged(f, "ValueError")

Distinct(s) == \A i, j \in 1..Len(s) : i # j => s[i] # s[j]

(* C4 as stated: a successfully augmented table has the original field      *)
(* names followed by Color, the same rows in the same order, and every row  *)
(* is its original cells followed by the Color cell and nothing else.       *)
C4_Original ==
    \A f \in DOMAIN disk :
        Succeeded(f) =>
            LET o == orig[f]
                w == disk[f]
            IN  /\ w.hdr = Append(o.hdr, "Color")
                /\ Len(w.rows) = Len(o.rows)
                /\ \A i \in 1..Len(o.rows) :
                      /\ Len(w.rows[i]) = Len(o.rows[i]) + 1
                      /\ SubSeq(w.rows[i], 1, Len(o.rows[i])) = o.rows[i]

(* C4 amended: for a table with pairwise distinct field names that is       *)
(* augmented successfully, the written header is the original one followed  *)
(* by Color, the rows are as many and in the same order, every original     *)
(* cell is unchanged, and a row shorter than the header gets an empty cell  *)
(* for each field it lacked, before its Color cell.                         *)
C4_Amended ==
    \A f \in DOMAIN disk :
        (Succeeded(f) /\ Distinct(orig[f].hdr)) =>
            LET o == orig[f]
                w == disk[f]
                n == Len(o.hdr)
            IN  /\ w.hdr = Append(o.hdr, "Color")
                /\ Len(w.rows) = Len(o.rows)
                /\ \A i \in 1..Len(o.rows) :
                      /\ Len(w.rows[i]) = n + 1
                      /\ \A j \in 1..n :
                            w.rows[i][j] = IF j <= Len(o.rows[i])
                                           THEN o.rows[i][j] ELSE <<>>

\* a table of two fields with a full row and a short row has been written
C4_Witness ==
    /\ pc = "report"
    /\ Succeeded(files[fi])
    /\ Distinct(orig[files[fi]].hdr)
    /\ Len(orig[files[fi]].hdr) = 2
    /\ \E i, j \in 1..Len(orig[files[fi]].rows) :
          /\ Len(orig[files[fi]].rows[i]) = 2
          /\ Len(orig[files[fi]].rows[j]) = 1

(* C5: in every table written, each row's Color is                          *)
(* generate_color_for_product of that row's ProductId, so rows with the     *)
(* same ProductId have the same Color; and the table is written only after  *)
(* every row has its Color.                                                 *)
C5_Original ==
    /\ \A f \in writes :
          LET w == disk[f]
              c == Len(w.hdr)
          IN  \A i, k \in 1..Len(w.rows) : \A j \in 1..(c - 1) :
                 w.hdr[j] = "ProductId" =>
                    /\ w.rows[i][c] = generate_color_for_product(w.rows[i][j])
                    /\ (w.rows[i][j] = w.rows[k][j] => w.rows[i][c] = w.rows[k][c])
    /\ pc = "report" =>
          /\ ri = Len(rows)
          /\ \A i \in 1..Len(rows) : "Color" \in DOMAIN rows[i].d

\* a record of the table has no ProductId cell
LacksProductId(t) ==
    \E i \in 1..Len(t.rows) :
        \A j \in 1..Len(t.hdr) : t.hdr[j] = "ProductId" => j > Len(t.rows[i])

\* a table add_colors_to_csv augments without raising
Augmentable(t) ==
    /\ "ProductId" \in Range(t.hdr)
    /\ ~ColorInSchema(t)
    /\ \A i \in 1..Len(t.rows) : Len(t.rows[i]) = Len(t.hdr)

(* C6: a table with a row lacking ProductId is left unmodified, its error   *)
(* does not end the batch, and when the process has ended every other       *)
(* table of the batch has been augmented and reported.                      *)
C6_Original ==
    \A i \in 1..Len(files) :
        LacksProductId(orig[files[i]]) =>
            /\ disk[files[i]] = orig[files[i]]
            /\ ~(i = fi /\ pc = "raised")
            /\ (/\ pc \in {"done", "raised"}
                /\ \A k \in 1..Len(files) : k # i => Augmentable(orig[files[k]]))
               => \A k \in 1..Len(files) : k # i => Logged(files[k], "ok")

(* C7: without the folder, or without a matching file in it, main exits     *)
(* non-zero, calls add_colors_to_csv for nothing and writes nothing;        *)
(* otherwise it does not exit that way and every matching file is handed    *)
(* to add_colors_to_csv.                                                    *)
C7_Original ==
    Terminated =>
        IF ~dirExists \/ \A n \in DOMAIN disk : ~IsPlacementFile(n)
        THEN pc = "exit1" /\ exitStatus = 1 /\ fi = 0 /\ writes = {} /\ log = <<>>
        ELSE /\ pc # "exit1"
             /\ {files[i] : i \in 1..fi} = {n \in DOMAIN disk : IsPlacementFile(n)}

\* the part of the path after /packing_data/
RequestedName == SubSeq(path, Len(PackingDataPrefix) + 1, Len(path))

(* C8: a GET of /packing_data/<name> is answered 200 with the file's bytes  *)
(* only if <name> matches item_placements_*.csv and is a file of the        *)
(* Results folder; any other name is rejected, a missing file gets 404.     *)
C8_Original ==
    (spc = "responded" /\ startswith(path, PackingDataPrefix)) =>
        /\ response.status = 200 =>
              /\ IsPlacementFile(RequestedName)
              /\ Servable(RequestedName)
              /\ response.body = results[RequestedName].bytes
        /\ ~Servable(RequestedName) => response.status = 404

(* C9: a table without rows (a header only, or an empty file) is skipped    *)
(* and reported, its file is not rewritten and gets no Color field, and the *)
(* batch goes on.                                                           *)
C9_Original ==
    \A i \in 1..fi :
        LET f == files[i]
        IN  (orig[f].rows = <<>> /\ Processed(i)) =>
              /\ disk[f] = orig[f]
              /\ f \notin writes
              /\ ~(i = fi /\ pc = "raised")

\* the distinct elements of s in order of first appearance
RECURSIVE FirstAppearances(_)
FirstAppearances(s) ==
    IF s = <<>> THEN <<>>
    ELSE LET init == FirstAppearances(SubSeq(s, 1, Len(s) - 1))
         IN  IF s[Len(s)] \in Range(init) THEN init ELSE Append(init, s[Len(s)])

\* ProductId of the first k rows of the table in hand
ProductIds(k) == [i \in 1..k |-> rows[i].d["ProductId"]]

(* C10: within one call the engine is invoked once per distinct ProductId,  *)
(* at the row where it first appears; the map is empty when the loop        *)
(* starts; the reported unique count is the number of invocations and the   *)
(* reported item count the number of rows.                                  *)
C10_OncePerId ==
    /\ pc \in {"rows", "report"} =>
          /\ calls = FirstAppearances(ProductIds(ri))
          /\ DOMAIN product_colors = Range(calls)
    /\ fi >= 1 =>
          \A j \in 1..Len(log) :
             (log[j].file = files[fi] /\ log[j].ev = "ok") =>
                /\ log[j].items = Len(orig[files[fi]].rows)
                /\ log[j].unique = Len(calls)

\* two rows with the same ProductId were reported: one invocation, two items
C10_Witness ==
    /\ pc = "loop"
    /\ log # <<>>
    /\ log[Len(log)].ev = "ok"
    /\ log[Len(log)].items = 2
    /\ log[Len(log)].unique = 1
    /\ Len(calls) = 1

====
